---- MODULE Spec2Model ----
(***************************************************************************)
(* docker-retag: the authenticating transport chain (basicAuthTransport    *)
(* wrapping tokenAuthTransport wrapping the base transport), the           *)
(* WWW-Authenticate challenge parser and Registry.ReTag.                   *)
(*                                                                         *)
(* Strings are sequences of one-character strings, so that prefix tests,   *)
(* slicing and the byte-wise parser loops are computed as the code does.   *)
(***************************************************************************)
EXTENDS Integers, Sequences, FiniteSets, TLC

\* ------------------------------------------------------------------ bounds

\* Longest manifest body a registry answer carries in the model.
MaxBody == 1
\* Number of distinct non-empty token strings a token endpoint may hand out.
NumTokens == 1

\* ----------------------------------------------------------------- strings

Empty == << >>

\* strings.HasPrefix(s, p)
HasPrefix(s, p) == Len(p) <= Len(s) /\ SubSeq(s, 1, Len(p)) = p

\* Go slice s[from:] with a 0-based index
SliceFrom(s, from) == SubSeq(s, from + 1, Len(s))

\* Go slice s[:to] with a 0-based, exclusive index
SliceTo(s, to) == SubSeq(s, 1, to)

\* strings.ToLower on the letters the model's alphabet has in upper case
LowerChar(c) ==
    CASE c = "A" -> "a"
      [] c = "B" -> "b"
      [] c = "E" -> "e"
      [] c = "H" -> "h"
      [] c = "R" -> "r"
      [] OTHER   -> c

ToLower(s) == [i \in 1..Len(s) |-> LowerChar(s[i])]

\* ------------------------------------------------------------ octet types

SeparatorChars ==
    {" ", "\t", "\"", "(", ")", ",", "/", ":", ";", "<", "=", ">", "?", "@",
     "[", "]", "\\", "{", "}"}

CtlChars == {"\t", "\r", "\n"}

\* octetTypes[c] & isSpace # 0
IsSpaceChar(c) == c \in {" ", "\t", "\r", "\n"}

\* octetTypes[c] & isToken # 0: a CHAR that is neither CTL nor separator
IsTokenChar(c) == c \notin CtlChars /\ c \notin SeparatorChars

\* number of leading characters of s that satisfy the octet test
RECURSIVE SpanSpace(_)
SpanSpace(s) ==
    IF s = Empty \/ ~IsSpaceChar(Head(s)) THEN 0 ELSE 1 + SpanSpace(Tail(s))

RECURSIVE SpanToken(_)
SpanToken(s) ==
    IF s = Empty \/ ~IsTokenChar(Head(s)) THEN 0 ELSE 1 + SpanToken(Tail(s))

skipSpace(s) == SliceFrom(s, SpanSpace(s))

\* expectToken: <<token, rest>>
expectToken(s) == [value |-> SliceTo(s, SpanToken(s)),
                   rest  |-> SliceFrom(s, SpanToken(s)),
                   panic |-> FALSE]

\* The inner loop of expectTokenOrQuoted, entered at the first backslash.
\* s is the text after the opening quote, i the 0-based read index, p the
\* output buffer of capacity Len(s) - 1 of which p holds the written part.
RECURSIVE QuotedEscapeLoop(_, _, _, _)
QuotedEscapeLoop(s, i, p, escape) ==
    IF i >= Len(s) THEN [value |-> Empty, rest |-> Empty, panic |-> FALSE]
    ELSE LET b == s[i + 1] IN
         IF escape
           THEN IF Len(p) >= Len(s) - 1
                  THEN [value |-> Empty, rest |-> Empty, panic |-> TRUE]
                  ELSE QuotedEscapeLoop(s, i + 1, Append(p, b), FALSE)
         ELSE IF b = "\\"
           THEN QuotedEscapeLoop(s, i + 1, p, TRUE)
         ELSE IF b = "\""
           THEN [value |-> p, rest |-> SliceFrom(s, i + 1), panic |-> FALSE]
         ELSE IF Len(p) >= Len(s) - 1
           THEN [value |-> Empty, rest |-> Empty, panic |-> TRUE]
           ELSE QuotedEscapeLoop(s, i + 1, Append(p, b), FALSE)

\* where the escape loop starts reading once the first backslash is at i
EscapeLoopStart(i) == i + i

\* The outer loop of expectTokenOrQuoted over the text after the quote.
RECURSIVE QuotedScan(_, _)
QuotedScan(s, i) ==
    IF i >= Len(s) THEN [value |-> Empty, rest |-> Empty, panic |-> FALSE]
    ELSE IF s[i + 1] = "\""
      THEN [value |-> SliceTo(s, i), rest |-> SliceFrom(s, i + 1), panic |-> FALSE]
    ELSE IF s[i + 1] = "\\"
      THEN QuotedEscapeLoop(s, EscapeLoopStart(i), SliceTo(s, i), TRUE)
    ELSE QuotedScan(s, i + 1)

expectTokenOrQuoted(s) ==
    IF ~HasPrefix(s, <<"\"">>) THEN expectToken(s) ELSE QuotedScan(Tail(s), 0)

\* ----------------------------------------------------------- challenges

\* a Go map[string]string as a set of <<key, value>> pairs with unique keys
MapSet(m, k, v) == {p \in m : p[1] # k} \cup {<<k, v>>}

\* m[k], the zero value "" when the key is absent
MapGet(m, k) ==
    IF \E p \in m : p[1] = k THEN (CHOOSE p \in m : p[1] = k)[2] ELSE Empty

\* the parameter loop of parseValueAndParams; s starts with the "," that
\* the code prepends or that separates two parameters
RECURSIVE ParamLoop(_, _, _)
ParamLoop(value, s, params) ==
    IF ~HasPrefix(s, <<",">>)
      THEN [value |-> value, params |-> params, panic |-> FALSE]
    ELSE LET k == expectToken(skipSpace(Tail(s))) IN
      IF k.value = Empty \/ ~HasPrefix(k.rest, <<"=">>)
        THEN [value |-> value, params |-> params, panic |-> FALSE]
      ELSE LET v == expectTokenOrQuoted(Tail(k.rest)) IN
        IF v.panic THEN [value |-> value, params |-> params, panic |-> TRUE]
        ELSE IF v.value = Empty
          THEN [value |-> value, params |-> params, panic |-> FALSE]
        ELSE ParamLoop(value, skipSpace(v.rest),
                       MapSet(params, ToLower(k.value), v.value))

parseValueAndParams(header) ==
    LET t == expectToken(header) IN
    IF t.value = Empty
      THEN [value |-> Empty, params |-> {}, panic |-> FALSE]
      ELSE ParamLoop(ToLower(t.value), <<",">> \o skipSpace(t.rest), {})

\* parseAuthHeader over the WWW-Authenticate values of one response, in
\* header order; panic when parsing one of them runs out of its buffer
RECURSIVE parseAuthHeader(_)
parseAuthHeader(headers) ==
    IF headers = << >> THEN [challenges |-> << >>, panic |-> FALSE]
    ELSE LET c == parseValueAndParams(Head(headers)) IN
      IF c.panic THEN [challenges |-> << >>, panic |-> TRUE]
      ELSE LET more == parseAuthHeader(Tail(headers)) IN
        IF more.panic THEN more
        ELSE [challenges |->
                (IF c.value # Empty
                   THEN <<[Scheme |-> c.value, Parameters |-> c.params]>>
                   ELSE << >>) \o more.challenges,
              panic |-> FALSE]

\* ------------------------------------------------------------------- URLs

\* characters a URL scheme may consist of (letters)
IsLetter(c) == IsTokenChar(c) /\ c \notin {"2", ".", "-", "_"}

RECURSIVE SpanLetters(_)
SpanLetters(s) ==
    IF s = Empty \/ ~IsLetter(Head(s)) THEN 0 ELSE 1 + SpanLetters(Tail(s))

RECURSIVE SpanUntilSlash(_)
SpanUntilSlash(s) ==
    IF s = Empty \/ Head(s) = "/" THEN 0 ELSE 1 + SpanUntilSlash(Tail(s))

NoURL == [ok |-> FALSE, Scheme |-> Empty, Host |-> Empty, Path |-> Empty, Query |-> {}]

\* url.Parse for URLs without query or fragment: a leading ":" is an error
\* (missing protocol scheme), the scheme is lower-cased, "//" starts the
\* authority, which ends at the next "/"
ParseURL(s) ==
    IF s # Empty /\ Head(s) = ":" THEN NoURL
    ELSE LET n      == SpanLetters(s)
             hasSch == n > 0 /\ n < Len(s) /\ s[n + 1] = ":"
             rest   == IF hasSch THEN SliceFrom(s, n + 1) ELSE s
             hasAut == HasPrefix(rest, <<"/", "/">>)
             aut    == IF hasAut THEN SliceFrom(rest, 2) ELSE Empty
         IN [ok     |-> TRUE,
             Scheme |-> IF hasSch THEN ToLower(SliceTo(s, n)) ELSE Empty,
             Host   |-> SliceTo(aut, SpanUntilSlash(aut)),
             Path   |-> IF hasAut THEN SliceFrom(aut, SpanUntilSlash(aut)) ELSE rest,
             Query  |-> {}]

\* (*url.URL).String() without the query, which the prefix test of the
\* injector never meets on a registry request
URLString(u) ==
    (IF u.Scheme # Empty THEN u.Scheme \o <<":">> ELSE Empty)
    \o (IF u.Host # Empty THEN <<"/", "/">> \o u.Host ELSE Empty)
    \o u.Path

\* the base transport opens a connection only for an http(s) URL with a host
Dialable(u) == u.Scheme = <<"h">> /\ u.Host # Empty

\* ---------------------------------------------------------- configuration

RegistryURLs == { <<"h", ":", "/", "/", "r">>,      \* h://r
                  <<"H", ":", "/", "/", "r">> }     \* H://r, scheme in upper case

Usernames == { Empty, <<"u">> }
Passwords == { Empty, <<"p">> }

\* NewRegistry: the same url, username and password go to the Registry, the
\* basicAuthTransport and the tokenAuthTransport
NewRegistry(url, username, password) ==
    [URL |-> url, Username |-> username, Password |-> password]

Configs == { NewRegistry(u, n, p) : u \in RegistryURLs, n \in Usernames, p \in Passwords }

\* Registry.url("/v2/%s/manifests/%s", repo, tag); the path is abbreviated
\* to /v2/<tag>, the repository being the same in both requests
RegistryUrl(r, tag) == r.URL \o <<"/", "v", "2", "/">> \o tag

OldTag == <<"o">>
NewTag == <<"n">>

\* ---------------------------------------------------------------- requests

NoAuth == [scheme |-> "none"]
\* req.SetBasicAuth(username, password)
BasicAuth(username, password) ==
    [scheme |-> "Basic", username |-> username, password |-> password]
\* fmt.Sprintf("Bearer %s", token)
BearerAuth(token) == [scheme |-> "Bearer", token |-> token]

\* the Accept value ReTag sends: the four manifest media types in order
AcceptManifests == <<"oci.manifest", "oci.index", "docker.list", "docker.manifest">>

\* http.NewRequest(method, url, body)
NewRequest(method, url, body) ==
    [Method |-> method, URL |-> ParseURL(url), Authorization |-> NoAuth,
     Accept |-> << >>, ContentType |-> Empty, Body |-> body]

\* ------------------------------------------------------ basicAuthTransport

\* send credentials with the request only towards a url starting with the
\* registry url, and only when there are credentials
BasicAuthAppliesAnyURL(b, req) == b.Username # Empty \/ b.Password # Empty

BasicAuthApplies(b, req) ==
    /\ HasPrefix(URLString(req.URL), b.URL)
    /\ (b.Username # Empty \/ b.Password # Empty)

\* the request basicAuthTransport.RoundTrip forwards to the wrapped transport
BasicAuthRequest(b, req) ==
    IF BasicAuthApplies(b, req)
      THEN [req EXCEPT !.Authorization = BasicAuth(b.Username, b.Password)]
      ELSE req

\* ----------------------------------------------------------------- answers

\* what the base transport hands back for one transmission: an error, or a
\* response; bodyOk says whether the body can be read to its end
ErrReply == [kind |-> "err"]

Response(status, www, ctype, body, ok) ==
    [kind |-> "resp", StatusCode |-> status, WWWAuthenticate |-> www,
     ContentType |-> ctype, Body |-> body, bodyOk |-> ok]

Quoted(s) == <<"\"">> \o s \o <<"\"">>

BearerWord == <<"B", "e", "a", "r", "e", "r">>
RealmKey   == <<"r", "e", "a", "l", "m">>
ServiceKey == <<"s", "e", "r", "v", "i", "c", "e">>
ScopeKey   == <<"s", "c", "o", "p", "e">>

\* the token endpoint h://a/t, on another host than the registry
TokenRealm == <<"h", ":", "/", "/", "a", "/", "t">>

\* Bearer realm="h://a/t",service="s",scope="p"
HdrBearer ==
    BearerWord \o <<" ">> \o RealmKey \o <<"=">> \o Quoted(TokenRealm)
      \o <<",">> \o ServiceKey \o <<"=">> \o Quoted(<<"s">>)
      \o <<",">> \o ScopeKey \o <<"=">> \o Quoted(<<"p">>)
\* Basic realm="x"
HdrBasic == <<"B", "a", "s", "i", "c", " ">> \o RealmKey \o <<"=">> \o Quoted(<<"x">>)
\* Bearer service="s"
HdrBearerNoRealm == BearerWord \o <<" ">> \o ServiceKey \o <<"=">> \o Quoted(<<"s">>)
\* Bearer realm=":"
HdrBearerBadRealm == BearerWord \o <<" ">> \o RealmKey \o <<"=">> \o Quoted(<<":">>)
\* Bearer realm="\a     (the quoted value never ends)
HdrBearerOpen == BearerWord \o <<" ">> \o RealmKey \o <<"=">> \o <<"\"", "\\", "a">>

\* the WWW-Authenticate lines a 401 may carry
WWWAuthChoices ==
    { << >>, <<HdrBasic>>, <<HdrBearer>>, <<HdrBasic, HdrBearer>>,
      <<HdrBearerNoRealm>>, <<HdrBearerBadRealm>>, <<HdrBearerOpen>> }

Bodies == { [j \in 1..n |-> "m"] : n \in 0..MaxBody }
ContentTypes == { <<"c">>, <<"d">> }

RegistryReplies ==
    {ErrReply}
    \cup { Response(200, << >>, ct, b, ok) :
             ct \in ContentTypes, b \in Bodies, ok \in BOOLEAN }
    \cup { Response(401, w, Empty, Empty, TRUE) : w \in WWWAuthChoices }
    \cup { Response(st, << >>, Empty, Empty, TRUE) : st \in {201, 404} }

\* token strings, and the bodies of a token endpoint: {"token":"<t>"}
\* written { <t> }, the object without a token field {}, and no JSON at all
Tokens == { [j \in 1..n |-> "k"] : n \in 1..NumTokens }
TokenBodies == { <<"{">> \o t \o <<"}">> : t \in Tokens } \cup { <<"{", "}">>, <<"x">> }

TokenReplies ==
    {ErrReply}
    \cup { Response(200, << >>, Empty, b, TRUE) : b \in TokenBodies }
    \cup { Response(401, <<HdrBearer>>, Empty, Empty, TRUE),
           Response(404, << >>, Empty, Empty, TRUE) }

\* json.NewDecoder(body).Decode(&authToken): the token field, "" when the
\* object has none, an error when the body is no JSON object
DecodeToken(body) ==
    IF Len(body) >= 2 /\ Head(body) = "{" /\ body[Len(body)] = "}"
      THEN [ok |-> TRUE, Token |-> SubSeq(body, 2, Len(body) - 1)]
      ELSE [ok |-> FALSE, Token |-> Empty]

\* -------------------------------------------------------------------- state

VARIABLES
    cfg,       \* the Registry with its transports: URL, Username, Password
    pc,        \* "start", waiting for the answer to the "orig", "token" or
               \* "replay" transmission, "done" or "panic"
    phase,     \* the request ReTag is at: "GET" or "PUT"
    req,       \* the request object handed to the transport chain
    wire,      \* every request handed to the base transport, in order
    replies,   \* the answer to each of them
    bodies,    \* per answer: "none", "open" or who closed the body
    returned,  \* per phase what Client.Do returned to ReTag
    src,       \* receivedMIME and manifest taken from the source response
    result,    \* what ReTag returned
    header,    \* the header text handed to the challenge parser on its own
    parseOut   \* what the parser returned for it

vars == <<cfg, pc, phase, req, wire, replies, bodies, returned, src, result,
          header, parseOut>>

NoHeader == [kind |-> "none"]
NoParse == [panic |-> FALSE]

NoOut == [err |-> "pending", idx |-> 0]
NoResult == [kind |-> "none"]
NoReq == [Method |-> "none"]

\* the state as a record, for the operators that compute the next one
Cur == [pc |-> pc, phase |-> phase, req |-> req, wire |-> wire,
        replies |-> replies, bodies |-> bodies, returned |-> returned,
        src |-> src, result |-> result]

Install(n) ==
    /\ pc' = n.pc
    /\ phase' = n.phase
    /\ req' = n.req
    /\ wire' = n.wire
    /\ replies' = n.replies
    /\ bodies' = n.bodies
    /\ returned' = n.returned
    /\ src' = n.src
    /\ result' = n.result
    /\ UNCHANGED <<cfg, header, parseOut>>

\* Wrapped.RoundTrip(r) on the base transport: the request goes out with
\* what is left of its body; kind is the state waiting for the answer
Send(s, kind, r, payload) ==
    [s EXCEPT !.pc = kind,
              !.wire = Append(@, [kind |-> kind, phase |-> s.phase,
                                  Method |-> r.Method, URL |-> r.URL,
                                  Authorization |-> r.Authorization,
                                  ContentType |-> r.ContentType,
                                  Payload |-> payload,
                                  network |-> Dialable(r.URL)])]

Received(s, r) ==
    [s EXCEPT !.replies = Append(@, r),
              !.bodies = Append(@, IF r.kind = "resp" THEN "open" ELSE "none")]

CloseBody(s, i, who) ==
    IF i = 0 THEN s
    ELSE [s EXCEPT !.bodies[i] = IF @ = "open" THEN who ELSE @]

\* ----------------------------------------------------------- Registry.ReTag

HttpError(status, url) == [kind |-> "HttpError", Status |-> status, URL |-> url]
ErrorResult(cause) == [kind |-> "error", cause |-> cause]
Success == [kind |-> "ok"]

\* ReTag returns res: the deferred Body.Close of sourceResp and destResp run
Finish(s, res) ==
    LET s1 == CloseBody(s, s.returned.GET.idx, "closedByReTag")
        s2 == CloseBody(s1, s.returned.PUT.idx, "closedByReTag")
    IN [s2 EXCEPT !.pc = "done", !.result = res]

\* r.Client.Do(rq): basicAuthTransport, then tokenAuthTransport, which
\* forwards the request to the base transport
ClientDo(s, rq) ==
    LET out == BasicAuthRequest(cfg, rq)
    IN Send([s EXCEPT !.req = out], "orig", out, out.Body)

\* sourceResp.StatusCode == http.StatusOK
GetSucceededBelow400(resp) == resp.StatusCode < 400

GetSucceeded(resp) == resp.StatusCode = 200

\* destResp.StatusCode == http.StatusCreated
PutSucceededAny2xx(resp) == resp.StatusCode < 300

PutSucceeded(resp) == resp.StatusCode = 201

\* the PUT request of ReTag: the manifest as read, under the new tag, with
\* the Content-Type the source response had
BuildPutFixedType(r, source) ==
    [NewRequest("PUT", RegistryUrl(r, NewTag), source.manifest)
       EXCEPT !.ContentType = <<"c">>]

BuildPut(r, source) ==
    [NewRequest("PUT", RegistryUrl(r, NewTag), source.manifest)
       EXCEPT !.ContentType = source.receivedMIME]

\* ReTag from the return of the GET's Client.Do up to the PUT's Client.Do
ReTagAfterGet(s, out) ==
    LET s1   == [s EXCEPT !.returned.GET = out]
        resp == s.replies[out.idx]
        got  == [receivedMIME |-> resp.ContentType, manifest |-> resp.Body]
        dest == BuildPut(cfg, got)
    IN IF out.err # "none" THEN Finish(s1, ErrorResult(out.err))
       ELSE IF ~GetSucceeded(resp)
         THEN Finish(s1, HttpError(resp.StatusCode, RegistryUrl(cfg, OldTag)))
       ELSE IF ~resp.bodyOk THEN Finish(s1, ErrorResult("read"))
       ELSE IF ~dest.URL.ok THEN Finish(s1, ErrorResult("urlparse"))
       ELSE ClientDo([s1 EXCEPT !.src = got, !.phase = "PUT"], dest)

\* ReTag from the return of the PUT's Client.Do to its end
ReTagAfterPut(s, out) ==
    LET s1   == [s EXCEPT !.returned.PUT = out]
        resp == s.replies[out.idx]
    IN IF out.err # "none" THEN Finish(s1, ErrorResult(out.err))
       ELSE IF ~PutSucceeded(resp)
         THEN Finish(s1, HttpError(resp.StatusCode, RegistryUrl(cfg, NewTag)))
       ELSE Finish(s1, Success)

\* the transport chain returns out to the Client.Do that ReTag waits in
ClientReturn(s, out) ==
    IF s.phase = "GET" THEN ReTagAfterGet(s, out) ELSE ReTagAfterPut(s, out)

ErrOut(cause) == [err |-> cause, idx |-> 0]
RespOut(i) == [err |-> "none", idx |-> i]

\* ------------------------------------------------------ tokenAuthTransport

\* index of the first challenge with scheme "bearer", 0 when there is none
RECURSIVE FirstWithScheme(_, _, _)
FirstWithScheme(challenges, scheme, i) ==
    IF i > Len(challenges) THEN 0
    ELSE IF challenges[i].Scheme = scheme THEN i
    ELSE FirstWithScheme(challenges, scheme, i + 1)

SelectFirstChallenge(challenges) == IF challenges = << >> THEN 0 ELSE 1

SelectBearer(challenges) ==
    FirstWithScheme(challenges, <<"b", "e", "a", "r", "e", "r">>, 1)

\* bearerAuthChallenge built from the parameters of the challenge
BearerChallenge(c) ==
    [Realm   |-> MapGet(c.Parameters, RealmKey),
     Service |-> MapGet(c.Parameters, ServiceKey),
     Scope   |-> MapGet(c.Parameters, ScopeKey)]

\* if t.Username != "" || t.Password != "" { authRequest.SetBasicAuth(..) }
AuthCredentialsBothNeeded(t) ==
    IF t.Username # Empty /\ t.Password # Empty
      THEN BasicAuth(t.Username, t.Password) ELSE NoAuth

AuthCredentials(t) ==
    IF t.Username # Empty \/ t.Password # Empty
      THEN BasicAuth(t.Username, t.Password) ELSE NoAuth

\* the request auth() builds: GET realm?service=..[&scope=..], with basic
\* auth when there are credentials
AuthRequest(t, challenge) ==
    LET realmUrl == ParseURL(challenge.Realm)
        q1 == MapSet(realmUrl.Query, ServiceKey, challenge.Service)
        q2 == IF challenge.Scope # Empty
                THEN MapSet(q1, ScopeKey, challenge.Scope) ELSE q1
    IN [Method |-> "GET", URL |-> [realmUrl EXCEPT !.Query = q2],
        Authorization |-> AuthCredentials(t),
        Accept |-> << >>, ContentType |-> Empty, Body |-> Empty]

\* auth() up to client.Do(authRequest): a realm that does not parse ends
\* the round trip with that error, otherwise the token request goes to the
\* base transport
AuthStart(s, challenge) ==
    LET authRequest == AuthRequest(cfg, challenge)
    IN IF ~authRequest.URL.ok THEN ClientReturn(s, ErrOut("urlparse"))
       ELSE Send(s, "token", authRequest, Empty)

\* return resp, err for a response that is not a 401: the answer number i
\* goes back to the caller as it came
ReturnClosed(s, i) ==
    ClientReturn(CloseBody(s, i, "closedByRoundTrip"), RespOut(i))

ReturnUntouched(s, i) == ClientReturn(s, RespOut(i))

\* tokenAuthTransport.RoundTrip after Wrapped.RoundTrip(req) returned r,
\* the answer number i
InspectAnswer(s, r) ==
    LET i      == Len(s.replies)
        parsed == parseAuthHeader(r.WWWAuthenticate)
        b      == SelectBearer(parsed.challenges)
    IN IF r.kind = "err" THEN ClientReturn(s, ErrOut("transport"))
       ELSE IF r.StatusCode # 401 THEN ReturnUntouched(s, i)
       ELSE IF parsed.panic THEN [s EXCEPT !.pc = "panic"]
       ELSE IF b = 0 THEN ClientReturn(s, RespOut(i))
       ELSE AuthStart(CloseBody(s, i, "closedByRoundTrip"),
                      BearerChallenge(parsed.challenges[b]))

\* what auth() returns once client.Do(authRequest) returned r, the answer
\* number i: the token, the response and the error
AuthResult(r, i) ==
    IF r.kind = "err" THEN [token |-> Empty, resp |-> 0, err |-> "transport"]
    ELSE IF r.StatusCode # 200 THEN [token |-> Empty, resp |-> i, err |-> "none"]
    ELSE IF ~DecodeToken(r.Body).ok THEN [token |-> Empty, resp |-> 0, err |-> "decode"]
    ELSE [token |-> DecodeToken(r.Body).Token, resp |-> 0, err |-> "none"]

\* authAndRetry gives up when auth() returned an error
AuthFailedNever(a) == FALSE

AuthFailed(a) == a.err # "none"

\* the header authAndRetry sets on the request before it sends it again
RetryAuthorizationKept(rq, token) == rq.Authorization

RetryAuthorization(rq, token) == BearerAuth(token)

\* t.Wrapped.RoundTrip(req) of authAndRetry: the request goes to the base
\* transport as authAndRetry left it, not through basicAuthTransport again
RetryThroughInjector(b, rq) == BasicAuthRequest(b, rq)

RetryForward(b, rq) == rq

\* auth() from the answer r to the token request, then the rest of
\* authAndRetry; left is what the first transmission left of the request's
\* body buffer
AuthAndRetry(s, r, left) ==
    LET i  == Len(s.replies)
        a  == AuthResult(r, i)
        s1 == IF r.kind = "resp" /\ r.StatusCode = 200
                THEN CloseBody(s, i, "closedByAuth") ELSE s
        rq == RetryForward(cfg,
                [s.req EXCEPT !.Authorization = RetryAuthorization(s.req, a.token)])
    IN IF AuthFailed(a) THEN ClientReturn(s1, [err |-> a.err, idx |-> a.resp])
       ELSE Send([s1 EXCEPT !.req = rq], "replay", rq, left)

\* client.Do(authRequest) of auth() runs on t.Wrapped, the base transport:
\* its answer r comes back to auth() itself, whatever its status
TokenAnsweredThroughChain(s, r, left) ==
    IF r.kind = "resp" /\ r.StatusCode = 401 THEN InspectAnswer(s, r)
    ELSE AuthAndRetry(s, r, left)

TokenAnswered(s, r, left) == AuthAndRetry(s, r, left)

\* authAndRetry returns the answer to the second transmission as it is
RetryInspectedAgain(s, r) == InspectAnswer(s, r)

RetryReturn(s, r) ==
    IF r.kind = "err" THEN ClientReturn(s, ErrOut("transport"))
    ELSE ClientReturn(s, RespOut(Len(s.replies)))

\* ------------------------------------------------------------------ actions

Init ==
    /\ cfg \in Configs
    /\ pc = "start"
    /\ phase = "GET"
    /\ req = NoReq
    /\ wire = << >>
    /\ replies = << >>
    /\ bodies = << >>
    /\ returned = [GET |-> NoOut, PUT |-> NoOut]
    /\ src = [receivedMIME |-> Empty, manifest |-> Empty]
    /\ result = NoResult
    /\ header = NoHeader
    /\ parseOut = NoParse

\* ReTag up to the first Client.Do
ReTagStart ==
    /\ pc = "start"
    /\ LET sourceReq == [NewRequest("GET", RegistryUrl(cfg, OldTag), Empty)
                           EXCEPT !.Accept = AcceptManifests]
       IN IF ~sourceReq.URL.ok
            THEN Install(Finish(Cur, ErrorResult("urlparse")))
            ELSE Install(ClientDo(Cur, sourceReq))

\* the answers the base transport can give to the last transmission: a
\* request it cannot dial fails without a round trip
Answers(set) ==
    IF wire[Len(wire)].network THEN set ELSE {ErrReply}

\* the first transmission of a request is answered
FirstAnswer ==
    /\ pc = "orig"
    /\ \E r \in Answers(RegistryReplies) :
         Install(InspectAnswer(Received(Cur, r), r))

\* the token request is answered
TokenAnswer ==
    /\ pc = "token"
    /\ \E r \in Answers(TokenReplies) :
       \E consumed \in 0..Len(req.Body) :
         Install(TokenAnswered(Received(Cur, r), r, SliceFrom(req.Body, consumed)))

\* the second transmission of a request is answered
RetryAnswer ==
    /\ pc = "replay"
    /\ \E r \in Answers(RegistryReplies) :
         Install(RetryReturn(Received(Cur, r), r))

Next == ReTagStart \/ FirstAnswer \/ TokenAnswer \/ RetryAnswer

Spec == Init /\ [][Next]_vars

\* ------------------------------------- basicAuthTransport on its own

\* The injector in front of an arbitrary wrapped transport, for any request
\* a client or a followed redirect may hand it.
InjectorURLs == RegistryURLs \cup { <<"h", ":", "/", "/", "r", "/">> }   \* h://r/

RequestURLs ==
    { <<"h", ":", "/", "/", "r", "/", "v", "2", "/", "o">>,      \* h://r/v2/o
      <<"h", ":", "/", "/", "r", ".", "e", "/", "x">>,           \* h://r.e/x
      <<"h", ":", "/", "/", "a", "/", "t">>,                     \* h://a/t
      <<"h", ":", "/", "/", "r">> }                              \* h://r

InjectorRequests ==
    { [NewRequest("GET", u, Empty) EXCEPT !.Authorization = a] :
        u \in RequestURLs, a \in {NoAuth, BearerAuth(<<"k">>)} }

InitBasic ==
    /\ cfg \in { NewRegistry(u, n, p) :
                   u \in InjectorURLs, n \in Usernames, p \in Passwords }
    /\ req \in InjectorRequests
    /\ pc = "basic"
    /\ phase = "GET"
    /\ wire = << >>
    /\ replies = << >>
    /\ bodies = << >>
    /\ returned = [GET |-> NoOut, PUT |-> NoOut]
    /\ src = [receivedMIME |-> Empty, manifest |-> Empty]
    /\ result = NoResult
    /\ header = NoHeader
    /\ parseOut = NoParse

\* basicAuthTransport.RoundTrip up to b.Wrapped.RoundTrip(req)
BasicForward ==
    /\ pc = "basic"
    /\ Install(Send(Cur, "inner", BasicAuthRequest(cfg, req), req.Body))

\* return resp, err
BasicReturn(s, r) ==
    [s EXCEPT !.pc = "done",
              !.returned.GET = IF r.kind = "err" THEN ErrOut("transport")
                               ELSE RespOut(Len(s.replies))]

\* the wrapped transport answers and basicAuthTransport.RoundTrip returns
BasicAnswer ==
    /\ pc = "inner"
    /\ \E r \in RegistryReplies : Install(BasicReturn(Received(Cur, r), r))

NextBasic == BasicForward \/ BasicAnswer

SpecBasic == InitBasic /\ [][NextBasic]_vars

\* ------------------------------------------- the challenge parser on its own

\* Longest quoted parameter value, in characters of the decoded value.
MaxUnits == 3
\* Longest realm of a well-formed bearer header, in the same unit.
MaxRealmUnits == 2

\* what a quoted-string is made of: a plain character, or a backslash and
\* the character it escapes; raw is the text in the header, lit the character
\* it stands for
QuotedUnits ==
    { [raw |-> <<"a">>, lit |-> "a"],
      [raw |-> <<"\\", "\"">>, lit |-> "\""],
      [raw |-> <<"\\", "\\">>, lit |-> "\\"],
      [raw |-> <<"\\", "a">>, lit |-> "a"] }

UnitSeqs(lo, hi) == UNION { [1..n -> QuotedUnits] : n \in lo..hi }

RECURSIVE RawText(_)
RawText(units) ==
    IF units = << >> THEN Empty ELSE Head(units).raw \o RawText(Tail(units))

LitText(units) == [i \in 1..Len(units) |-> units[i].lit]

Bearer == <<"b", "e", "a", "r", "e", "r">>
ServiceParam == ServiceKey \o <<"=">> \o Quoted(<<"s">>)
ScopeParam == ScopeKey \o <<"=">> \o Quoted(<<"p">>)

\* a quoted value with its closing quote, followed by rest
QuotedInputs ==
    { [kind |-> "quoted", units |-> u, rest |-> r,
       text |-> Quoted(RawText(u)) \o r] :
        u \in UnitSeqs(0, MaxUnits), r \in {Empty, <<",">> \o ServiceParam} }

\* Bearer [service="s",]realm="<value that never ends>
OpenInputs ==
    { [kind |-> "open", units |-> u, before |-> {},
       lines |-> <<BearerWord \o <<" ">> \o RealmKey \o <<"=", "\"">> \o RawText(u)>>] :
        u \in UnitSeqs(0, MaxUnits) }
    \cup
    { [kind |-> "open", units |-> u, before |-> {<<ServiceKey, <<"s">>>>},
       lines |-> <<BearerWord \o <<" ">> \o ServiceParam \o <<",">>
                     \o RealmKey \o <<"=", "\"">> \o RawText(u)>>] :
        u \in UnitSeqs(0, MaxUnits) }

\* <scheme> realm="R",service="s",scope="p" and the challenge it stands for
FormLine(scheme, u) ==
    [line |-> scheme \o <<" ">> \o RealmKey \o <<"=">> \o Quoted(RawText(u))
                \o <<",">> \o ServiceParam \o <<",">> \o ScopeParam,
     challenges |-> <<[Scheme |-> Bearer,
                       Parameters |-> {<<RealmKey, LitText(u)>>,
                                       <<ServiceKey, <<"s">>>>,
                                       <<ScopeKey, <<"p">>>>}]>>]

SchemeVariants == { BearerWord, Bearer, <<"B", "E", "A", "R", "E", "R">> }

\* a line that does not start with a scheme token
NoSchemeLine == [line |-> <<"=", "x">>, challenges |-> << >>]

FirstLines ==
    { FormLine(v, u) : v \in SchemeVariants, u \in UnitSeqs(1, MaxRealmUnits) }
    \cup { NoSchemeLine }

SecondLines ==
    { NoSchemeLine,
      FormLine(Bearer, <<[raw |-> <<"a">>, lit |-> "a"]>>),
      [line |-> HdrBasic,
       challenges |-> <<[Scheme |-> <<"b", "a", "s", "i", "c">>,
                         Parameters |-> {<<RealmKey, <<"x">>>>}]>>] }

\* one or two WWW-Authenticate lines of that form
FormInputs ==
    { [kind |-> "form", lines |-> <<a.line>>, challenges |-> a.challenges] :
        a \in FirstLines }
    \cup
    { [kind |-> "form", lines |-> <<a.line, b.line>>,
       challenges |-> a.challenges \o b.challenges] :
        a \in FirstLines, b \in SecondLines }

InitParse ==
    /\ header \in QuotedInputs \cup OpenInputs \cup FormInputs
    /\ parseOut = NoParse
    /\ pc = "parse"
    /\ cfg = NewRegistry(<<"h", ":", "/", "/", "r">>, Empty, Empty)
    /\ phase = "GET"
    /\ req = NoReq
    /\ wire = << >>
    /\ replies = << >>
    /\ bodies = << >>
    /\ returned = [GET |-> NoOut, PUT |-> NoOut]
    /\ src = [receivedMIME |-> Empty, manifest |-> Empty]
    /\ result = NoResult

\* expectTokenOrQuoted on the value of a parameter
ParseQuoted ==
    /\ pc = "parse"
    /\ header.kind = "quoted"
    /\ parseOut' = expectTokenOrQuoted(header.text)
    /\ pc' = "parsed"
    /\ UNCHANGED <<cfg, phase, req, wire, replies, bodies, returned, src,
                   result, header>>

\* parseAuthHeader on the WWW-Authenticate lines of a response
ParseHeaders ==
    /\ pc = "parse"
    /\ header.kind \in {"open", "form"}
    /\ parseOut' = parseAuthHeader(header.lines)
    /\ pc' = "parsed"
    /\ UNCHANGED <<cfg, phase, req, wire, replies, bodies, returned, src,
                   result, header>>

NextParse == ParseQuoted \/ ParseHeaders

SpecParse == InitParse /\ [][NextParse]_vars

\* ------------------------------------------------------------------- claims

Phases == {"GET", "PUT"}

\* the transmissions of one kind made for the request of phase p
Idx(p, kind) == { i \in 1..Len(wire) : wire[i].phase = p /\ wire[i].kind = kind }

Answered(i) == i <= Len(replies) /\ replies[i].kind = "resp"

\* C1: for each request handed to tokenAuthTransport.RoundTrip there is at
\* most one token exchange and at most one replay; a replay answered 401 is
\* the last transmission made for that request and its 401 is what the
\* round trip returns.
C1_SingleRetry ==
    \A p \in Phases :
      /\ Cardinality(Idx(p, "orig")) <= 1
      /\ Cardinality(Idx(p, "token")) <= 1
      /\ Cardinality(Idx(p, "replay")) <= 1
      /\ \A i \in Idx(p, "replay") :
           (Answered(i) /\ replies[i].StatusCode = 401) =>
             /\ returned[p] = RespOut(i)
             /\ \A j \in 1..Len(wire) : wire[j].phase = p => j <= i

C1_Witness ==
    \E i \in Idx("GET", "replay") :
      /\ Answered(i)
      /\ replies[i].StatusCode = 401
      /\ replies[i].WWWAuthenticate = <<HdrBearer>>
      /\ returned.GET = RespOut(i)
      /\ pc = "done"

NoPutSent == \A i \in 1..Len(wire) : wire[i].Method # "PUT"

\* C2: when the GET's Client.Do returns an error or a status other than
\* 200, ReTag fails with that error, or with HttpError of that status and
\* the source url, and no PUT is sent; a PUT is on the wire only after a
\* 200 answer to the GET whose body was read to its end.
C2_NoPutAfterFailedGet ==
    LET out == returned.GET IN
    /\ out.err \notin {"pending", "none"} =>
         result = ErrorResult(out.err) /\ NoPutSent
    /\ (out.err = "none" /\ replies[out.idx].StatusCode # 200) =>
         /\ result = HttpError(replies[out.idx].StatusCode,
                               cfg.URL \o <<"/", "v", "2", "/">> \o OldTag)
         /\ NoPutSent
    /\ ~NoPutSent =>
         /\ out.err = "none"
         /\ replies[out.idx].StatusCode = 200
         /\ replies[out.idx].bodyOk
         /\ src.manifest = replies[out.idx].Body

C2_Witness ==
    /\ result.kind = "HttpError"
    /\ result.Status = 404
    /\ returned.PUT = NoOut
    /\ NoPutSent

\* C3: the PUT that ReTag hands to its client goes to the new tag's
\* manifest url and carries the body bytes and the Content-Type of the 200
\* answer to the GET; when the PUT's Client.Do returns 201, ReTag succeeds.
C3_PutCopiesManifest ==
    LET g == replies[returned.GET.idx] IN
    /\ \A i \in Idx("PUT", "orig") :
         /\ wire[i].Method = "PUT"
         /\ wire[i].URL = ParseURL(cfg.URL \o <<"/", "v", "2", "/">> \o NewTag)
         /\ wire[i].Payload = g.Body
         /\ wire[i].ContentType = g.ContentType
    /\ (returned.PUT.err = "none" /\ replies[returned.PUT.idx].StatusCode = 201)
         => result = Success

C3_Witness ==
    /\ result = Success
    /\ \E i \in Idx("PUT", "orig") :
         wire[i].Payload = <<"m">> /\ wire[i].ContentType = <<"d">>

\* C4: the request the injector forwards carries the Basic header of the
\* configured credentials exactly when the request's url string starts with
\* the registry url and a username or a password is set; otherwise it is
\* forwarded as it came; the wrapped transport's answer is returned as is.
C4_BasicInjection ==
    /\ \A i \in 1..Len(wire) :
         /\ wire[i].Method = req.Method
         /\ wire[i].URL = req.URL
         /\ wire[i].ContentType = req.ContentType
         /\ wire[i].Payload = req.Body
         /\ IF /\ HasPrefix(URLString(req.URL), cfg.URL)
               /\ (cfg.Username # Empty \/ cfg.Password # Empty)
              THEN wire[i].Authorization = BasicAuth(cfg.Username, cfg.Password)
              ELSE wire[i].Authorization = req.Authorization
    /\ pc = "done" =>
         returned.GET = IF replies[1].kind = "err" THEN ErrOut("transport")
                        ELSE RespOut(1)

C4_Witness ==
    /\ pc = "done"
    /\ req.Authorization = BearerAuth(<<"k">>)
    /\ cfg.Username = Empty /\ cfg.Password = <<"p">>
    /\ wire[1].Authorization = BasicAuth(Empty, <<"p">>)
    /\ replies[1].kind = "resp"

\* C5: a request for another host than the host of the registry url is
\* forwarded by the injector with its headers as they came.
C5_NoCredentialsToOtherHost ==
    \A i \in 1..Len(wire) :
      wire[i].URL.Host # ParseURL(cfg.URL).Host =>
        wire[i].Authorization = req.Authorization

\* the challenges of answer i parse and none of them has scheme "bearer"
NoBearerChallenge(r) ==
    LET parsed == parseAuthHeader(r.WWWAuthenticate) IN
    /\ ~parsed.panic
    /\ \A k \in 1..Len(parsed.challenges) :
         parsed.challenges[k].Scheme # <<"b", "e", "a", "r", "e", "r">>

\* C6: a 401 to the first transmission whose challenges hold no bearer
\* scheme is what the round trip returns, its body not closed by the
\* transport; no token request and no second transmission are made for
\* that request.
C6_NoBearerNoExchange ==
    \A p \in Phases : \A i \in Idx(p, "orig") :
      (Answered(i) /\ replies[i].StatusCode = 401 /\ NoBearerChallenge(replies[i])) =>
        /\ returned[p] = RespOut(i)
        /\ bodies[i] # "closedByRoundTrip"
        /\ Idx(p, "token") = {}
        /\ Idx(p, "replay") = {}

C6_Witness ==
    \E i \in Idx("GET", "orig") :
      /\ Answered(i)
      /\ replies[i].StatusCode = 401
      /\ replies[i].WWWAuthenticate = <<HdrBasic>>
      /\ returned.GET = RespOut(i)
      /\ result.kind = "HttpError" /\ result.Status = 401

\* C7: when the token request is answered with a status other than 200,
\* the original request is not sent again and the round trip returns the
\* token endpoint's response.
C7_TokenFailureReturned ==
    \A p \in Phases : \A i \in Idx(p, "token") :
      (Answered(i) /\ replies[i].StatusCode # 200) =>
        /\ Idx(p, "replay") = {}
        /\ returned[p] = RespOut(i)

\* C8: when the token request is answered 200 with a body that is no JSON,
\* ReTag ends there with an error that is no HttpError: the request is not
\* sent again and nothing more goes on the wire, in particular no request
\* with an empty bearer token.
C8_DecodeFailureAborts ==
    \A p \in Phases : \A i \in Idx(p, "token") :
      (Answered(i) /\ replies[i].StatusCode = 200 /\ replies[i].Body = <<"x">>) =>
        /\ pc = "done"
        /\ result = ErrorResult("decode")
        /\ result.kind # "HttpError"
        /\ Idx(p, "replay") = {}
        /\ i = Len(wire)

C8_Witness ==
    \E i \in Idx("PUT", "token") :
      /\ Answered(i) /\ replies[i].StatusCode = 200 /\ replies[i].Body = <<"x">>
      /\ result = ErrorResult("decode")

\* the token request for the challenge HdrBearer
TokenRequestURL ==
    [ParseURL(TokenRealm) EXCEPT
       !.Query = {<<ServiceKey, <<"s">>>>, <<ScopeKey, <<"p">>>>}]

\* C9: a GET answered 401 with a bearer challenge, whose token request (to
\* the realm, with service and scope) is answered 200 with a token T, is
\* sent once more, right after the token answer, unchanged but for the
\* header Authorization: Bearer T; when that answer is a readable 200 the
\* PUT follows, and ReTag succeeds when the PUT ends with 201.
C9_BearerFlow ==
    \A i \in Idx("GET", "token") :
      (Answered(i) /\ replies[i].StatusCode = 200 /\ DecodeToken(replies[i].Body).ok) =>
        /\ i = 2 /\ replies[1].StatusCode = 401
        /\ (replies[1].WWWAuthenticate = <<HdrBearer>> => wire[i].URL = TokenRequestURL)
        /\ Idx("GET", "replay") = {i + 1}
        /\ wire[i + 1] = [wire[1] EXCEPT
                            !.kind = "replay",
                            !.Authorization =
                               BearerAuth(DecodeToken(replies[i].Body).Token)]
        /\ (Answered(i + 1) /\ replies[i + 1].StatusCode = 200 /\ replies[i + 1].bodyOk) =>
             /\ Idx("PUT", "orig") = {i + 2}
             /\ (returned.PUT.err = "none"
                 /\ replies[returned.PUT.idx].StatusCode = 201) => result = Success

C9_Witness ==
    /\ Len(wire) = 4
    /\ replies[1].StatusCode = 401 /\ replies[1].WWWAuthenticate = <<HdrBearer>>
    /\ wire[2].kind = "token" /\ replies[2].Body = <<"{", "k", "}">>
    /\ wire[3].kind = "replay" /\ wire[3].Authorization = BearerAuth(<<"k">>)
    /\ Len(replies) = 4
    /\ replies[3].StatusCode = 200
    /\ wire[4].Method = "PUT" /\ replies[4].kind = "resp" /\ replies[4].StatusCode = 201
    /\ result = Success

\* the network round trips made so far
RoundTrips(p) == { i \in 1..Len(wire) : wire[i].phase = p /\ wire[i].network }

\* C10 as stated: one ReTag makes at most 3 network round trips.
C10_AtMostThree ==
    Cardinality(RoundTrips("GET") \cup RoundTrips("PUT")) <= 3

\* C10 amended: each of the two requests of ReTag costs at most 3 round
\* trips (first transmission, token request, one replay), 6 in all, one
\* after the other: a transmission is made only when all earlier ones are
\* answered, and the PUT's only after the GET's are over.
C10_AtMostThreePerRequest ==
    /\ \A p \in Phases : Cardinality(RoundTrips(p)) <= 3
    /\ Cardinality(RoundTrips("GET") \cup RoundTrips("PUT")) <= 6
    /\ Len(wire) - Len(replies) = (IF pc \in {"orig", "token", "replay"} THEN 1 ELSE 0)
    /\ \A i \in RoundTrips("GET") : \A j \in RoundTrips("PUT") : i < j

C10_Witness ==
    /\ Cardinality(RoundTrips("GET") \cup RoundTrips("PUT")) = 6
    /\ pc = "done"
    /\ result = Success

\* C11: when ReTag has returned, every response body that was received has
\* been closed.
C11_AllBodiesClosed ==
    pc = "done" => \A i \in 1..Len(bodies) : bodies[i] # "open"

\* C12: the parser never panics; for a header whose quoted value never
\* ends it returns the scheme with the parameters read before that value
\* and nothing after.
C12_ParserNeverPanics ==
    pc = "parsed" =>
      /\ ~parseOut.panic
      /\ header.kind = "open" =>
           parseOut.challenges =
             <<[Scheme |-> Bearer, Parameters |-> header.before]>>

\* C13: a quoted value that ends is returned with every \c replaced by c
\* and the other characters kept in order, the rest being what follows the
\* closing quote.
C13_QuotedValueDecoded ==
    (pc = "parsed" /\ header.kind = "quoted") =>
      parseOut = [value |-> LitText(header.units), rest |-> header.rest,
                  panic |-> FALSE]

\* C14: each line <scheme> realm="R",service="S",scope="Sc", the scheme
\* being Bearer in any letter case, gives one challenge with scheme
\* "bearer" and exactly these three parameters; the challenges come in the
\* order of the lines and a line without a scheme token gives none.
C14_WellFormedBearer ==
    (pc = "parsed" /\ header.kind = "form") =>
      parseOut = [challenges |-> header.challenges, panic |-> FALSE]

\* the 401 answers of the model whose WWW-Authenticate value is malformed:
\* a bearer scheme without realm, with a realm that is no url, with a
\* quoted value that never ends
MalformedChallenges == { <<HdrBearerNoRealm>>, <<HdrBearerBadRealm>>, <<HdrBearerOpen>> }

\* C15: a 401 with a malformed WWW-Authenticate value is returned as it is:
\* no token request is made for it, and ReTag, when it is the GET's, ends
\* with HttpError of status 401.
C15_MalformedIsNoChallenge ==
    \A p \in Phases : \A i \in Idx(p, "orig") :
      (Answered(i) /\ replies[i].StatusCode = 401
         /\ replies[i].WWWAuthenticate \in MalformedChallenges) =>
        /\ Idx(p, "token") = {}
        /\ returned[p] = RespOut(i)
        /\ result.kind = "HttpError" /\ result.Status = 401

\* C16: when the PUT's Client.Do returns a response whose status is not
\* 201, ReTag ends with HttpError carrying that status and the url of the
\* new tag's manifest; ReTag ends in success only when the PUT's Client.Do
\* returned a response with status 201.
C16_PutStatusDecides ==
    LET out == returned.PUT IN
    /\ (out.err = "none" /\ replies[out.idx].StatusCode # 201) =>
         result = HttpError(replies[out.idx].StatusCode,
                            cfg.URL \o <<"/", "v", "2", "/">> \o NewTag)
    /\ result = Success =>
         /\ out.err = "none"
         /\ replies[out.idx].StatusCode = 201
         /\ wire[out.idx].Method = "PUT"

C16_Witness ==
    /\ pc = "done"
    /\ returned.PUT.err = "none"
    /\ replies[returned.PUT.idx].StatusCode = 200
    /\ result.kind = "HttpError"
    /\ result.Status = 200

\* C17: the second transmission of the manifest PUT, made after the token
\* endpoint answered 200, carries the same body bytes as its first
\* transmission, the whole manifest.
C17_ReplayCarriesManifest ==
    \A i \in Idx("PUT", "orig") : \A j \in Idx("PUT", "replay") :
        (\A k \in Idx("PUT", "token") : replies[k].StatusCode = 200) =>
            /\ wire[j].Payload = wire[i].Payload
            /\ wire[j].Payload = src.manifest

\* C18: a first transmission that ends in a transport error makes the round
\* trip return that error, and one answered with a status other than 401
\* makes it return that response, its body not closed by the transport and
\* the request's Authorization as it was sent; in both cases no token
\* request and no second transmission are made for that request.
C18_PassThrough ==
    \A p \in Phases : \A i \in Idx(p, "orig") :
      /\ (i <= Len(replies) /\ replies[i].kind = "err") =>
           /\ returned[p] = ErrOut("transport")
           /\ result = ErrorResult("transport")
           /\ Idx(p, "token") = {}
           /\ Idx(p, "replay") = {}
      /\ (Answered(i) /\ replies[i].StatusCode # 401) =>
           /\ returned[p] = RespOut(i)
           /\ bodies[i] \notin {"closedByRoundTrip", "closedByAuth"}
           /\ phase = p => req.Authorization = wire[i].Authorization
           /\ Idx(p, "token") = {}
           /\ Idx(p, "replay") = {}

C18_Witness ==
    /\ pc = "done"
    /\ \E i \in Idx("GET", "orig") :
         /\ Answered(i)
         /\ replies[i].StatusCode = 200
         /\ returned.GET = RespOut(i)
         /\ bodies[i] = "closedByReTag"
    /\ \E j \in Idx("PUT", "orig") :
         /\ replies[j].kind = "err"
         /\ returned.PUT = ErrOut("transport")
    /\ Idx("GET", "token") \cup Idx("PUT", "token") = {}

\* C19: a token request answered 401, bearer challenge or not, is the only
\* token request made for that request: its answer goes back to auth(), no
\* token request follows it, and a token request never carries a Bearer
\* header of an earlier exchange.
C19_NoNestedExchange ==
    \A p \in Phases : \A k \in Idx(p, "token") :
      /\ wire[k].Authorization.scheme # "Bearer"
      /\ (Answered(k) /\ replies[k].StatusCode = 401) =>
           /\ Idx(p, "token") = {k}
           /\ \A j \in 1..Len(wire) :
                (j > k /\ wire[j].phase = p) => wire[j].kind = "replay"

C19_Witness ==
    /\ pc = "done"
    /\ \E k \in Idx("GET", "token") :
         /\ Answered(k)
         /\ replies[k].StatusCode = 401
         /\ replies[k].WWWAuthenticate = <<HdrBearer>>
         /\ Idx("GET", "token") = {k}

\* C20: with an empty username and an empty password no request on the
\* wire, to the registry or to the token endpoint, carries a Basic
\* Authorization header; with one of them set every token request carries
\* Basic auth made of the two, whatever the host of the realm.
C20_AnonymousMode ==
    /\ (cfg.Username = Empty /\ cfg.Password = Empty) =>
         \A i \in 1..Len(wire) : wire[i].Authorization.scheme # "Basic"
    /\ (cfg.Username # Empty \/ cfg.Password # Empty) =>
         \A p \in Phases : \A k \in Idx(p, "token") :
           wire[k].Authorization = BasicAuth(cfg.Username, cfg.Password)

C20_Witness ==
    /\ cfg.Username = Empty
    /\ cfg.Password # Empty
    /\ \E k \in Idx("GET", "token") :
         /\ wire[k].URL.Host # ParseURL(cfg.URL).Host
         /\ wire[k].Authorization = BasicAuth(Empty, cfg.Password)

C20_WitnessAnonymous ==
    /\ cfg.Username = Empty
    /\ cfg.Password = Empty
    /\ pc = "done"
    /\ Idx("GET", "token") # {}
    /\ Idx("PUT", "replay") # {}

\* C21: every second transmission carries Bearer and the token auth()
\* returned in the exchange made for that same request, in place of the
\* Basic header of the first transmission; every first transmission, the
\* PUT's after a GET that got a token included, carries what the injector
\* makes of a fresh request, never a Bearer header.
C21_BearerReplacesBasic ==
    \A p \in Phases :
      /\ \A j \in Idx(p, "replay") :
           \E k \in Idx(p, "token") :
             /\ k < j
             /\ Answered(k)
             /\ wire[j].Authorization = BearerAuth(AuthResult(replies[k], k).token)
      /\ \A i \in Idx(p, "orig") :
           /\ wire[i].Authorization.scheme # "Bearer"
           /\ wire[i].Authorization =
                (IF BasicAuthApplies(cfg, [URL |-> wire[i].URL])
                   THEN BasicAuth(cfg.Username, cfg.Password) ELSE NoAuth)

C21_Witness ==
    /\ \E i \in Idx("GET", "orig") : \E j \in Idx("GET", "replay") :
         /\ wire[i].Authorization = BasicAuth(cfg.Username, cfg.Password)
         /\ wire[j].Authorization = BearerAuth(<<"k">>)
    /\ \E i \in Idx("PUT", "orig") :
         wire[i].Authorization = BasicAuth(cfg.Username, cfg.Password)

====
